---- MODULE Spec2Model ----
(***************************************************************************)
(* Model of scripts/generate-splash.py: the splash-screen generator.       *)
(*                                                                         *)
(* main() is a straight-line pipeline.  A run is a record holding the      *)
(* position in main(), the canvas, the text layout computed by draw_text,  *)
(* the output directory and what was printed.  The canvas is abstracted to *)
(* its mode, its size, the list of layers composited onto it and the list  *)
(* of resize operations it went through; pixels are not modelled.          *)
(*                                                                         *)
(* The environment is an input fixed at the start: whether the icon and    *)
(* the two font files are readable, the glyph widths the title font        *)
(* measures, and the first file-system operation that fails (if any).      *)
(***************************************************************************)
EXTENDS Integers, Sequences, FiniteSets, TLC

(***************************** program constants ***************************)
W == 1290
H == 2796

BG_TOP    == <<10, 0, 20>>
BG_MID    == <<26, 5, 48>>
BG_BOT    == <<13, 0, 32>>
PURPLE    == <<168, 85, 247>>
PURPLE_LT == <<192, 132, 252>>
TEXT_CLR  == <<226, 212, 240>>
TAG_CLR   == <<168, 130, 220>>
WHITE     == <<255, 255, 255>>

title_text == <<"N", "O", "M", "O">>
spacing    == 24

(********************************* bounds **********************************)
\* glyph widths measured by the title font are drawn from 0..MaxCharW and
\* one wide value that makes the title wider than the canvas
MaxCharW  == 1
WideCharW == 450
\* t is a double k * 2^-s: the multiples of 1/2^TBits in [0,1], and the
\* small values k * 2^-s with k in 1..MaxK and s in 40..MaxExp, where the
\* double sum a + (b - a) * t no longer holds every bit of the exact sum
TBits     == 3
MaxK      == 3
MaxExp    == 60
\* number of times the tool is run over the same output directory
MaxRuns   == 2

Glyphs     == {"N", "O", "M"}
CharWidths == (0..MaxCharW) \cup {WideCharW}
Faults     == {"none", "makedirs", "save_3x", "save_2x", "save_1x", "write_manifest"}
FileNames  == {"splash-3x.png", "splash-2x.png", "splash-1x.png", "Contents.json"}

VARIABLES
    iconPresent,   \* public/app-icon.png can be opened
    boldPresent,   \* FONT_BOLD can be loaded
    regPresent,    \* FONT_REG can be loaded
    glyphW,        \* width font_title.getbbox measures for each glyph
    run,           \* the run of main()
    twin,          \* a second run of main() on the same input files
    lerpArgs,      \* <<c1, c2, <<k, s>>>>: a call lerp_color(c1, c2, k * 2^-s)
    lerpOut        \* its result, <<>> before the call

vars == <<iconPresent, boldPresent, regPresent, glyphW, run, twin, lerpArgs, lerpOut>>
inputs == <<iconPresent, boldPresent, regPresent, glyphW>>

(******************************* lerp_color ********************************)
(* lerp_color computes in IEEE doubles.  Its argument t is a double, here  *)
(* t = k * 2^-s.  With a, b in 0..255 and k below 2^22 the product         *)
(* (b - a) * t = d * 2^-s, d = (b - a) * k, is exact; the sum a + d * 2^-s *)
(* is rounded to the nearest double (53-bit significand, ties to even),    *)
(* and int() drops the fraction of the non-negative result.                *)
RECURSIVE Pow2(_)
Pow2(n) == IF n = 0 THEN 1 ELSE 2 * Pow2(n - 1)

RECURSIVE Log2Floor(_)
Log2Floor(n) == IF n < 2 THEN 0 ELSE 1 + Log2Floor(n \div 2)

\* floor(d * 2^-s), for |d| < 2^30
FloorShift(d, s) ==
    IF s <= 30 THEN d \div Pow2(s) ELSE (IF d >= 0 THEN 0 ELSE -1)

\* whether the distance from x = d * 2^-s up to the integer floor(x) + 1
\* is at most 2^(e - s), for |d| < 2^30
GapWithin(d, s, e) ==
    IF e < 0 THEN FALSE
    ELSE IF s <= 30 THEN (e >= 30 \/ Pow2(s) - (d % Pow2(s)) <= Pow2(e))
    ELSE d < 0 /\ (e >= 30 \/ -d <= Pow2(e))

\* the exponent of half the spacing of the doubles just below the integer
\* n >= 1: 2^(j-53) for 2^j < n < 2^(j+1), and 2^(j-54) for n = 2^j
HalfUlpExp(n) ==
    Log2Floor(n) - (IF n = Pow2(Log2Floor(n)) THEN 54 ELSE 53)

\* int(a + p) for the double p = d * 2^-s, with a + p >= 0: the sum rounds
\* to the integer floor + 1 when it lies within half a spacing below it
\* (a tie goes to the integer, whose significand is even), and keeps its
\* integer part floor otherwise
IntOfSum(a, d, s) ==
    LET q == a + FloorShift(d, s)
    IN  IF GapWithin(d, s, s + HalfUlpExp(q + 1)) THEN q + 1 ELSE q

\* a + int((b - a) * t): the offset truncated toward zero instead of the sum
lerp_color_trunc_offset(c1, c2, k, s) ==
    [i \in DOMAIN c1 |->
        LET d == (c2[i] - c1[i]) * k
        IN  c1[i] + (IF d >= 0 THEN FloorShift(d, s) ELSE -FloorShift(-d, s))]

\* tuple(int(a + (b - a) * t) for a, b in zip(c1, c2)), with t = k * 2^-s
lerp_color(c1, c2, k, s) ==
    [i \in DOMAIN c1 |-> IntOfSum(c1[i], (c2[i] - c1[i]) * k, s)]

Palette == {BG_TOP, BG_MID, BG_BOT, PURPLE, PURPLE_LT, TEXT_CLR, TAG_CLR, WHITE,
            <<0, 0, 0>>}
Ts      == {<<k, TBits>> : k \in 0..Pow2(TBits)}
               \cup {<<k, s>> : k \in 1..MaxK, s \in 40..MaxExp}

(********************************* values **********************************)
\* an image: its mode, its size, the layers composited onto it in order,
\* and the sizes it was resized to in order
NoImage == [mode |-> "none", size |-> <<0, 0>>, layers |-> <<>>, via |-> <<>>]

\* one compositing operation: what was drawn, with which font (text only),
\* blurred by which radius (0: not blurred), and the pen positions of the
\* glyphs for the title, which is drawn character by character
Layer(op, font, blur, xs) == [op |-> op, font |-> font, blur |-> blur, xs |-> xs]

\* the content of a file of the output directory
Absent      == [kind |-> "absent",  image |-> NoImage, entries |-> <<>>]
Truncated   == [kind |-> "partial", image |-> NoImage, entries |-> <<>>]
Png(image)  == [kind |-> "png",     image |-> image,   entries |-> <<>>]

\* the manifest with the 2x and 3x scale strings exchanged
contents_swapped ==
    [kind |-> "json", image |-> NoImage,
     entries |-> << [idiom |-> "universal", filename |-> "splash-1x.png", scale |-> "1x"],
                    [idiom |-> "universal", filename |-> "splash-2x.png", scale |-> "3x"],
                    [idiom |-> "universal", filename |-> "splash-3x.png", scale |-> "2x"] >>]

\* the Contents.json literal: "images" in order; "info" is fixed
contents ==
    [kind |-> "json", image |-> NoImage,
     entries |-> << [idiom |-> "universal", filename |-> "splash-1x.png", scale |-> "1x"],
                    [idiom |-> "universal", filename |-> "splash-2x.png", scale |-> "2x"],
                    [idiom |-> "universal", filename |-> "splash-3x.png", scale |-> "3x"] >>]

\* the statements of main() in program order, manifest written before the images
MainOrder_manifest_first ==
    << "start", "draw_gradient", "draw_glow", "draw_scanlines", "draw_icon",
       "draw_text", "draw_loading_bar", "convert_rgb", "makedirs",
       "write_manifest", "save_3x", "save_2x", "save_1x", "print_done", "end" >>

\* the statements of main() in program order; "end" is the return
MainOrder ==
    << "start", "draw_gradient", "draw_glow", "draw_scanlines", "draw_icon",
       "draw_text", "draw_loading_bar", "convert_rgb", "makedirs",
       "save_3x", "save_2x", "save_1x", "write_manifest", "print_done", "end" >>

IndexOf(p) == CHOOSE i \in DOMAIN MainOrder : MainOrder[i] = p
Succ(p)    == MainOrder[IndexOf(p) + 1]

\* the state of a run before main() is entered, over a given directory.
\* The file system the process runs on is part of it: fault is the
\* file-system step that fails for this run ("none": none does), and
\* partial says whether a failing write leaves a truncated file behind
InitRun(d, n, f, p) ==
    [ pc          |-> "start",
      fault       |-> f,
      partial     |-> p,
      status      |-> "running",
      failedAt    |-> "",
      img         |-> NoImage,
      font_title  |-> "",
      font_tag    |-> "",
      char_widths |-> <<>>,
      total_w     |-> 0,
      title_x     |-> 0,
      penEnd      |-> <<>>,
      dir         |-> d,
      written     |-> <<>>,
      stdout      |-> <<>>,
      runNo       |-> n ]

EmptyDir(exists) == [exists |-> exists, files |-> [f \in FileNames |-> Absent]]

\* an uncaught exception at the current statement: the run ends there
Fail(s) == [s EXCEPT !.status = "failed", !.failedAt = s.pc]

Paint(s, layer) == [s EXCEPT !.img.layers = Append(@, layer)]
Goto(s)         == [s EXCEPT !.pc = Succ(s.pc)]

(***************************** drawing stages ******************************)
\* print(...); img = Image.new('RGB', (W, H), BG_TOP)
start(s) ==
    Goto([s EXCEPT !.stdout = Append(@, "Generating"),
                   !.img = [mode |-> "RGB", size |-> <<W, H>>,
                            layers |-> <<>>, via |-> <<>>]])

\* draw_gradient(img); img = img.convert('RGBA')
draw_gradient(s) ==
    Goto([Paint(s, Layer("gradient", "", 0, <<>>)) EXCEPT !.img.mode = "RGBA"])

\* img = draw_glow(img): the blurred circle composited over the canvas
draw_glow(s) == Goto(Paint(s, Layer("glow", "", 60, <<>>)))

\* draw_scanlines whose result main() does not keep
draw_scanlines_dropped(s) == Goto(s)

\* img = draw_scanlines(img)
draw_scanlines(s) == Goto(Paint(s, Layer("scanlines", "", 0, <<>>)))

\* draw_icon that leaves the icon area blank when the file cannot be opened
draw_icon_blank(s) ==
    IF iconPresent
    THEN Goto(Paint(Paint(s, Layer("icon_shadow", "", 20, <<>>)),
                    Layer("icon", "", 0, <<>>)))
    ELSE Goto(s)

\* img, below_icon = draw_icon(img): Image.open raises when the icon is
\* missing; otherwise the blurred shadow is pasted, then the icon
draw_icon(s) ==
    IF iconPresent
    THEN Goto(Paint(Paint(s, Layer("icon_shadow", "", 20, <<>>)),
                    Layer("icon", "", 0, <<>>)))
    ELSE Fail(s)

\* try: ImageFont.truetype(path, size)  except: ImageFont.load_default()
load_font(present, name) == IF present THEN name ELSE "default"

RECURSIVE SumSeq(_)
SumSeq(q) == IF q = <<>> THEN 0 ELSE Head(q) + SumSeq(Tail(q))

\* the pen advance that adds the spacing after every character
advance_spaced_always(cw, i, n) == cw[i] + spacing

\* x += char_widths[i] + (spacing if i < len(title_text) - 1 else 0),
\* with i counted from 1
advance(cw, i, n) == cw[i] + (IF i < n THEN spacing ELSE 0)

\* the pen position after the first i characters of a pass starting at x
RECURSIVE PenAfter(_, _, _)
PenAfter(x, cw, i) ==
    IF i = 0 THEN x ELSE PenAfter(x, cw, i - 1) + advance(cw, i, Len(cw))

\* the positions at which the characters of one pass are drawn
PenPositions(x, cw) == [i \in DOMAIN cw |-> PenAfter(x, cw, i - 1)]

\* total_w = sum of the character widths + spacing * (len(title_text) - 1)
total_width(cw) == SumSeq(cw) + spacing * (Len(cw) - 1)

\* the body of draw_text once the two fonts are chosen: measure the title
\* character by character, centre it, draw the outer glow (blur 30), the
\* tighter glow (blur 12) and the sharp text, each pass stepping the pen
\* from title_x, then draw the tagline
render_text(s, ft, fg) ==
    LET cw  == [i \in DOMAIN title_text |-> glyphW[title_text[i]]]
        tw  == total_width(cw)
        tx  == (W - tw) \div 2
        xs  == PenPositions(tx, cw)
        s1  == Paint(s,  Layer("title_glow", ft, 30, xs))
        s2  == Paint(s1, Layer("title_glow", ft, 12, xs))
        s3  == Paint(s2, Layer("title_text", ft, 0, xs))
        s4  == Paint(s3, Layer("tagline", fg, 0, <<>>))
    IN  Goto([s4 EXCEPT !.font_title = ft, !.font_tag = fg,
                        !.char_widths = cw, !.total_w = tw, !.title_x = tx,
                        !.penEnd = << PenAfter(tx, cw, Len(cw)),
                                      PenAfter(tx, cw, Len(cw)),
                                      PenAfter(tx, cw, Len(cw)) >>])

\* draw_text without the try/except around the font loads
draw_text_no_fallback(s) ==
    IF boldPresent /\ regPresent
    THEN render_text(s, "bold", "regular")
    ELSE Fail(s)

\* img, below_tag = draw_text(img, below_icon)
draw_text(s) ==
    render_text(s, load_font(boldPresent, "bold"), load_font(regPresent, "regular"))

\* img = draw_loading_bar(img, below_tag): track, border, fill glow, fill
draw_loading_bar(s) ==
    Goto(Paint(Paint(Paint(Paint(s,
        Layer("bar_track", "", 0, <<>>)),
        Layer("bar_border", "", 0, <<>>)),
        Layer("bar_fill_glow", "", 8, <<>>)),
        Layer("bar_fill", "", 0, <<>>)))

\* img = img.convert('RGB')
convert_rgb(s) == Goto([s EXCEPT !.img.mode = "RGB"])

(********************************* export **********************************)
\* os.makedirs(out_dir, exist_ok=True)
makedirs(s) ==
    IF s.fault = s.pc THEN Fail(s)
    ELSE Goto([s EXCEPT !.dir.exists = TRUE])

\* the write with the file opened in append mode: new content goes after
\* what the file already holds
WriteFile_append(s, name, content) ==
    IF s.fault = s.pc \/ ~s.dir.exists
    THEN IF s.partial /\ s.dir.exists
         THEN Fail([s EXCEPT !.dir.files[name] = Truncated,
                             !.written = Append(@, name)])
         ELSE Fail(s)
    ELSE [s EXCEPT !.dir.files[name] =
                       [content EXCEPT !.entries = s.dir.files[name].entries \o @],
                   !.written = Append(@, name)]

\* Image.save(path) and open(path, 'w') + write: the file is created or
\* replaced by the new content.  When the step fails the exception leaves
\* main(); the file is untouched or, if the file system says so, truncated
WriteFile(s, name, content) ==
    IF s.fault = s.pc \/ ~s.dir.exists
    THEN IF s.partial /\ s.dir.exists
         THEN Fail([s EXCEPT !.dir.files[name] = Truncated,
                             !.written = Append(@, name)])
         ELSE Fail(s)
    ELSE [s EXCEPT !.dir.files[name] = content,
                   !.written = Append(@, name)]

\* the 2x size with the division applied to the factor alone
Size2x_factor_first == <<W * (2 \div 3), H * (2 \div 3)>>

\* w2, h2 = W * 2 // 3, H * 2 // 3
Size2x == <<(W * 2) \div 3, (H * 2) \div 3>>

\* w1, h1 = W // 3, H // 3
Size1x == <<W \div 3, H \div 3>>

\* Image.resize returns a new image and leaves its receiver as it is
resize(image, size) == [image EXCEPT !.size = size, !.via = Append(@, size)]

Printed(s, line) ==
    IF s.status = "failed" THEN s ELSE Goto([s EXCEPT !.stdout = Append(@, line)])

\* img.save(.../splash-3x.png); print
save_3x(s) == Printed(WriteFile(s, "splash-3x.png", Png(s.img)), "3x")

\* the 2x step that keeps the resized image in img
save_2x_rebinds_img(s) ==
    LET t == WriteFile(s, "splash-2x.png", Png(resize(s.img, Size2x)))
    IN  Printed(IF t.status = "failed" THEN t
                ELSE [t EXCEPT !.img = resize(s.img, Size2x)], "2x")

\* img2 = img.resize((w2, h2)); img2.save(.../splash-2x.png); print
save_2x(s) == Printed(WriteFile(s, "splash-2x.png", Png(resize(s.img, Size2x))), "2x")

\* img1 = img.resize((w1, h1)); img1.save(.../splash-1x.png); print
save_1x(s) == Printed(WriteFile(s, "splash-1x.png", Png(resize(s.img, Size1x))), "1x")

\* with open(.../Contents.json, 'w') as f: f.write(contents)
write_manifest(s) ==
    LET t == WriteFile(s, "Contents.json", contents)
    IN  IF t.status = "failed" THEN t ELSE Goto(t)

\* print("Done! ..."); main() returns
print_done(s) == [Goto(s) EXCEPT !.stdout = Append(@, "Done"), !.status = "done"]

\* the statement of main() the run is at
Step(s) ==
    CASE s.pc = "start"            -> start(s)
      [] s.pc = "draw_gradient"    -> draw_gradient(s)
      [] s.pc = "draw_glow"        -> draw_glow(s)
      [] s.pc = "draw_scanlines"   -> draw_scanlines(s)
      [] s.pc = "draw_icon"        -> draw_icon(s)
      [] s.pc = "draw_text"        -> draw_text(s)
      [] s.pc = "draw_loading_bar" -> draw_loading_bar(s)
      [] s.pc = "convert_rgb"      -> convert_rgb(s)
      [] s.pc = "makedirs"         -> makedirs(s)
      [] s.pc = "save_3x"          -> save_3x(s)
      [] s.pc = "save_2x"          -> save_2x(s)
      [] s.pc = "save_1x"          -> save_1x(s)
      [] s.pc = "write_manifest"   -> write_manifest(s)
      [] s.pc = "print_done"       -> print_done(s)

(***************************** specifications ******************************)
InputsInit(widths) ==
    /\ iconPresent \in BOOLEAN
    /\ boldPresent \in BOOLEAN
    /\ regPresent  \in BOOLEAN
    /\ glyphW      \in [Glyphs -> widths]

\* the run starts over an absent or an empty output directory, on a file
\* system with any of the faults; the twin is not run and is set likewise
RunsInit ==
    \E exists \in BOOLEAN, f \in Faults, p \in BOOLEAN :
        /\ run  = InitRun(EmptyDir(exists), 1, f, p)
        /\ twin = InitRun(EmptyDir(exists), 1, f, p)

\* the file system the run is on
fault   == run.fault
partial == run.partial

LerpIdle ==
    /\ lerpArgs = <<BG_TOP, BG_MID, <<0, 0>>>>
    /\ lerpOut  = <<>>

Init == InputsInit(CharWidths) /\ RunsInit /\ LerpIdle

\* the run is at statement p of main() and has not ended
At(p) == run.status = "running" /\ run.pc = p

\* a statement of main() touches nothing but the run's own state
Others == UNCHANGED <<inputs, twin, lerpArgs, lerpOut>>

Start ==
    /\ At("start")
    /\ run' = start(run)
    /\ Others

DrawGradient ==
    /\ At("draw_gradient")
    /\ run' = draw_gradient(run)
    /\ Others

DrawGlow ==
    /\ At("draw_glow")
    /\ run' = draw_glow(run)
    /\ Others

DrawScanlines ==
    /\ At("draw_scanlines")
    /\ run' = draw_scanlines(run)
    /\ Others

DrawIcon ==
    /\ At("draw_icon")
    /\ run' = draw_icon(run)
    /\ Others

DrawText ==
    /\ At("draw_text")
    /\ run' = draw_text(run)
    /\ Others

DrawLoadingBar ==
    /\ At("draw_loading_bar")
    /\ run' = draw_loading_bar(run)
    /\ Others

ConvertRgb ==
    /\ At("convert_rgb")
    /\ run' = convert_rgb(run)
    /\ Others

MakeDirs ==
    /\ At("makedirs")
    /\ run' = makedirs(run)
    /\ Others

Save3x ==
    /\ At("save_3x")
    /\ run' = save_3x(run)
    /\ Others

Save2x ==
    /\ At("save_2x")
    /\ run' = save_2x(run)
    /\ Others

Save1x ==
    /\ At("save_1x")
    /\ run' = save_1x(run)
    /\ Others

WriteManifest ==
    /\ At("write_manifest")
    /\ run' = write_manifest(run)
    /\ Others

PrintDone ==
    /\ At("print_done")
    /\ run' = print_done(run)
    /\ Others

Next ==
    \/ Start
    \/ DrawGradient
    \/ DrawGlow
    \/ DrawScanlines
    \/ DrawIcon
    \/ DrawText
    \/ DrawLoadingBar
    \/ ConvertRgb
    \/ MakeDirs
    \/ Save3x
    \/ Save2x
    \/ Save1x
    \/ WriteManifest
    \/ PrintDone

Spec == Init /\ [][Next]_vars

\* main() is sequential code: a run that can take a step takes it.  The
\* glyph widths play no part in whether a run ends, so fewer are drawn.
InitLive == InputsInit(0..MaxCharW) /\ RunsInit /\ LerpIdle

SpecLive == InitLive /\ [][Next]_vars /\ WF_vars(Next)

(* Two runs on the same input files (icon, fonts).  Each has its own file  *)
(* system: its own output directory, absent or empty at first, its own     *)
(* fault and its own answer to what a failing write leaves.  The runs are  *)
(* stepped side by side while both go on; one that outlasts the other goes *)
(* on alone; once both have ended the tool is run again over the directory *)
(* the twin left.                                                          *)
InitPair ==
    /\ InputsInit({0, MaxCharW})
    /\ \E e1 \in BOOLEAN, f1 \in Faults, p1 \in BOOLEAN :
           run = InitRun(EmptyDir(e1), 1, f1, p1)
    /\ \E e2 \in BOOLEAN, f2 \in Faults, p2 \in BOOLEAN :
           twin = InitRun(EmptyDir(e2), 1, f2, p2)
    /\ LerpIdle

Ended(s) == s.status # "running"

BothStep ==
    /\ ~Ended(run) /\ ~Ended(twin) /\ twin.runNo = 1
    /\ run'  = Step(run)
    /\ twin' = Step(twin)
    /\ UNCHANGED <<inputs, lerpArgs, lerpOut>>

RunStep ==
    /\ ~Ended(run) /\ Ended(twin)
    /\ run' = Step(run)
    /\ UNCHANGED <<inputs, twin, lerpArgs, lerpOut>>

\* the tool is started again: a new process over the directory as it is
TwinRerun ==
    /\ Ended(run) /\ Ended(twin) /\ twin.runNo < MaxRuns
    /\ twin' = InitRun(twin.dir, twin.runNo + 1, twin.fault, twin.partial)
    /\ UNCHANGED <<inputs, run, lerpArgs, lerpOut>>

TwinStep ==
    /\ ~Ended(twin) /\ (Ended(run) \/ twin.runNo > 1)
    /\ twin' = Step(twin)
    /\ UNCHANGED <<inputs, run, lerpArgs, lerpOut>>

NextPair == BothStep \/ RunStep \/ TwinRerun \/ TwinStep

SpecPair == InitPair /\ [][NextPair]_vars

(* lerp_color applied to arguments drawn from the palette and from Ts.      *)
InitLerp ==
    /\ iconPresent = TRUE /\ boldPresent = TRUE /\ regPresent = TRUE
    /\ glyphW = [g \in Glyphs |-> 0]
    /\ run  = InitRun(EmptyDir(FALSE), 1, "none", FALSE)
    /\ twin = InitRun(EmptyDir(FALSE), 1, "none", FALSE)
    /\ lerpArgs \in Palette \X Palette \X Ts
    /\ lerpOut = <<>>

CallLerp ==
    /\ lerpOut = <<>>
    /\ lerpOut' = lerp_color(lerpArgs[1], lerpArgs[2], lerpArgs[3][1], lerpArgs[3][2])
    /\ UNCHANGED <<inputs, run, twin, lerpArgs>>

NextLerp == CallLerp

SpecLerp == InitLerp /\ [][NextLerp]_vars

(********************************* claims **********************************)
IsPrefix(p, q) == Len(p) <= Len(q) /\ \A i \in 1..Len(p) : p[i] = q[i]
Range(q)       == {q[i] : i \in DOMAIN q}
Past(p)        == IndexOf(run.pc) > IndexOf(p)
File(f)        == run.dir.files[f]
PngNames       == {"splash-3x.png", "splash-2x.png", "splash-1x.png"}

\* C1: when the icon file cannot be opened, the run fails in draw_icon
\* before any output file is written: no file has been written by the run,
\* the directory holds none of the four output files, the run never gets
\* past draw_icon and never prints the completion message.
C1_NoOutputWithoutIcon ==
    ~iconPresent =>
        /\ run.written = <<>>
        /\ \A f \in FileNames : File(f).kind = "absent"
        /\ ~Past("draw_icon")
        /\ run.status # "done"
        /\ "Done" \notin Range(run.stdout)
        /\ run.status = "failed" => run.failedAt = "draw_icon"

C1_Witness ==
    ~iconPresent /\ run.status = "failed" /\ run.failedAt = "draw_icon"

\* C2: the saved images have the sizes 1290x2796 (3x), 860x1864 (2x) and
\* 430x932 (1x); the 2x size is exactly twice and the 3x size exactly three
\* times the 1x size.
C2_ExportSizes ==
    /\ File("splash-3x.png").kind = "png" =>
           File("splash-3x.png").image.size = <<1290, 2796>>
    /\ File("splash-2x.png").kind = "png" =>
           File("splash-2x.png").image.size = <<860, 1864>>
    /\ File("splash-1x.png").kind = "png" =>
           File("splash-1x.png").image.size = <<430, 932>>
    /\ run.status = "done" =>
           \A k \in 1..2 :
               /\ File("splash-2x.png").image.size[k] = 2 * File("splash-1x.png").image.size[k]
               /\ File("splash-3x.png").image.size[k] = 3 * File("splash-1x.png").image.size[k]
               /\ File("splash-3x.png").image.size[k] = <<W, H>>[k]

C2_Witness ==
    /\ run.status = "done"
    /\ \A f \in PngNames : File(f).kind = "png"

\* C3: when main() completes, the manifest lists exactly three entries, the
\* filenames it lists are exactly the PNG files the run saved, and each
\* entry's scale is the scale its file was produced at: 3x for the image
\* saved at full size, 2x for the one resized by 2/3, 1x for the one
\* resized by 1/3.
C3_ManifestMatchesFiles ==
    run.status = "done" =>
        LET m == File("Contents.json") IN
        /\ m.kind = "json"
        /\ Len(m.entries) = 3
        /\ {m.entries[i].filename : i \in 1..3} = Range(run.written) \ {"Contents.json"}
        /\ {m.entries[i].filename : i \in 1..3} = PngNames
        /\ \A i \in 1..3 :
               LET e  == m.entries[i]
                   im == File(e.filename).image
               IN  /\ File(e.filename).kind = "png"
                   /\ e.scale \in {"1x", "2x", "3x"}
                   /\ e.scale = "3x" <=> (im.via = <<>> /\ im.size = <<W, H>>)
                   /\ e.scale = "2x" <=>
                          (im.via # <<>> /\ 3 * im.size[1] = 2 * W /\ 3 * im.size[2] = 2 * H)
                   /\ e.scale = "1x" <=>
                          (im.via # <<>> /\ 3 * im.size[1] = W /\ 3 * im.size[2] = H)

C3_Witness ==
    /\ run.status = "done"
    /\ File("Contents.json").kind = "json"
    /\ Cardinality(Range(run.written)) = 4

\* C4: once the canvas is converted to RGB it is never changed again: it
\* stays the full-size RGB canvas, the image saved as splash-3x.png is that
\* canvas, and the 2x and 1x images are that canvas resized exactly once,
\* so all saved images are RGB and carry the same composite.
C4_ResizeOnly ==
    Past("convert_rgb") =>
        /\ run.img.mode = "RGB"
        /\ run.img.size = <<W, H>>
        /\ run.img.via = <<>>
        /\ File("splash-3x.png").kind = "png" => File("splash-3x.png").image = run.img
        /\ \A f \in {"splash-2x.png", "splash-1x.png"} :
               File(f).kind = "png" =>
                   /\ File(f).image.mode = "RGB"
                   /\ File(f).image.layers = run.img.layers
                   /\ File(f).image.via = <<File(f).image.size>>

C4_Witness ==
    /\ run.status = "done"
    /\ File("splash-1x.png").kind = "png"
    /\ File("splash-1x.png").image.layers = File("splash-3x.png").image.layers
    /\ Len(run.img.layers) > 0

Min(a, b) == IF a <= b THEN a ELSE b
Max(a, b) == IF a <= b THEN b ELSE a

\* whether r is floor(a + d * 2^-s), in exact arithmetic (|d| < 2^20)
IsFloor(r, a, d, s) ==
    IF s <= 20
    THEN r * Pow2(s) <= a * Pow2(s) + d /\ a * Pow2(s) + d < (r + 1) * Pow2(s)
    ELSE r = (IF d >= 0 THEN a ELSE a - 1)

\* whether 0 < r - (a + d * 2^-s) <= 2^-44 for the integer r, in exact
\* arithmetic (|d| < 2^20): impossible for s <= 20, where the distance is a
\* positive multiple of 2^-s
IsJustAbove(r, a, d, s) ==
    s > 20 /\ d < 0 /\ r = a /\ (s - 44 >= 30 \/ (s >= 44 /\ -d <= Pow2(s - 44)))

\* what C5 states of every call, but for the value of the channels
LerpEndpointsAndRange ==
    LET c1 == lerpArgs[1]
        c2 == lerpArgs[2]
        k  == lerpArgs[3][1]
        s  == lerpArgs[3][2]
    IN  /\ DOMAIN lerpOut = DOMAIN c1
        /\ k = 0 => lerpOut = c1
        /\ (s <= 20 /\ k = Pow2(s)) => lerpOut = c2
        /\ \A i \in DOMAIN c1 :
               /\ Min(c1[i], c2[i]) <= lerpOut[i]
               /\ lerpOut[i] <= Max(c1[i], c2[i])
               /\ lerpOut[i] \in 0..255

\* C5 as stated: lerp_color(c1, c2, 0) = c1 and lerp_color(c1, c2, 1) = c2;
\* for every t in [0,1] each channel of the result is floor(a + (b-a)*t),
\* lies between a and b and within 0..255, also when b < a.
C5_FloorForEveryT ==
    lerpOut # <<>> =>
        /\ LerpEndpointsAndRange
        /\ \A i \in DOMAIN lerpOut :
               IsFloor(lerpOut[i], lerpArgs[1][i],
                       (lerpArgs[2][i] - lerpArgs[1][i]) * lerpArgs[3][1], lerpArgs[3][2])

\* C5, amended: lerp_color(c1, c2, 0) = c1 and lerp_color(c1, c2, 1) = c2;
\* for every t in [0,1] each channel lies between a and b and within
\* 0..255, and is floor(a + (b-a)*t) or, only when a + (b-a)*t is less than
\* 2^-44 below the next integer, that next integer.
C5_LerpFloorOrRoundedUp ==
    lerpOut # <<>> =>
        /\ LerpEndpointsAndRange
        /\ \A i \in DOMAIN lerpOut :
               LET a == lerpArgs[1][i]
                   d == (lerpArgs[2][i] - lerpArgs[1][i]) * lerpArgs[3][1]
                   s == lerpArgs[3][2]
                   r == lerpOut[i]
               IN  \/ IsFloor(r, a, d, s)
                   \/ IsFloor(r - 1, a, d, s) /\ IsJustAbove(r, a, d, s)

\* a call whose double sum rounds up to the next integer in one channel,
\* and keeps the floor in another channel that also decreases
C5_Witness ==
    /\ lerpOut # <<>>
    /\ lerpArgs[3][1] > 0
    /\ \E i \in 1..3 :
           /\ lerpArgs[2][i] < lerpArgs[1][i]
           /\ lerpOut[i] = lerpArgs[1][i]
    /\ \E i \in 1..3 :
           /\ lerpArgs[2][i] < lerpArgs[1][i]
           /\ lerpOut[i] = lerpArgs[1][i] - 1

\* what a run has produced: the files of its directory, the files it
\* wrote, and what it printed
Output(s) == <<s.dir.files, s.written, s.stdout>>

C7_Safety ==
    /\ Past("draw_text") =>
           /\ run.font_title = (IF boldPresent THEN "bold" ELSE "default")
           /\ run.font_tag = (IF regPresent THEN "regular" ELSE "default")
    /\ run.status = "failed" =>
           /\ run.pc = run.failedAt
           /\ run.failedAt \in {"draw_icon", "makedirs", "save_3x", "save_2x",
                                "save_1x", "write_manifest"}
           /\ run.failedAt = "draw_icon" <=> ~iconPresent
           /\ run.failedAt # "draw_icon" => run.failedAt = fault
           /\ ~ENABLED Next
    /\ run.status = "running" => ENABLED Next
    /\ ~(~iconPresent /\ Past("draw_icon"))
    /\ ~(fault # "none" /\ IndexOf(fault) < IndexOf(run.pc))
    /\ (iconPresent /\ fault = "none") =>
           /\ run.status # "failed"
           /\ run.status = "done" =>
                  /\ \A f \in PngNames : File(f).kind = "png"
                  /\ File("Contents.json").kind = "json"
                  /\ Range(run.written) = FileNames

C7_Done ==
    /\ run.status = "done"
    /\ \A f \in PngNames : File(f).kind = "png"
    /\ File("Contents.json").kind = "json"

\* C7: C7_Safety always holds and, for every combination of the two font
\* files being present or missing, a run with the icon readable and no
\* file-system failure terminates having written all four files.
C7_FontFallbackOnly ==
    /\ []C7_Safety
    /\ (iconPresent /\ fault = "none") ~> C7_Done

C7_Witness ==
    /\ ~boldPresent /\ ~regPresent
    /\ run.status = "done"
    /\ run.font_title = "default" /\ run.font_tag = "default"
    /\ Range(run.written) = FileNames

\* C8: total_w is the sum of the measured character widths plus the spacing
\* between characters (not after the last one), title_x = (W - total_w) div 2,
\* the left and right margins of the title block differ by at most 1, and
\* each of the three passes ends with the pen at title_x + total_w.
C8_TitleCentered ==
    Past("draw_text") =>
        LET cw    == run.char_widths
            left  == run.title_x
            right == W - (run.title_x + run.total_w)
        IN  /\ Len(cw) = 4
            /\ \A i \in 1..4 : cw[i] = glyphW[title_text[i]]
            /\ run.total_w = cw[1] + cw[2] + cw[3] + cw[4] + 24 * 3
            /\ 2 * run.title_x <= W - run.total_w
            /\ W - run.total_w < 2 * run.title_x + 2
            /\ right - left \in {0, 1}
            /\ Len(run.penEnd) = 3
            /\ \A k \in 1..3 : run.penEnd[k] = run.title_x + run.total_w
            /\ \A k \in 1..Len(run.img.layers) :
                   LET l == run.img.layers[k] IN
                   l.op \in {"title_glow", "title_text"} =>
                       /\ Len(l.xs) = 4
                       /\ l.xs[1] = run.title_x
                       /\ \A i \in 1..3 : l.xs[i + 1] = l.xs[i] + cw[i] + 24
                       /\ l.xs[4] + cw[4] = run.title_x + run.total_w

C8_Witness ==
    /\ Past("draw_text")
    /\ W - (run.title_x + run.total_w) - run.title_x = 1
    /\ run.char_widths[1] # run.char_widths[2]
    /\ run.title_x < 0

\* the compositing steps in the order the claim lists them
ClaimedOrder ==
    << "gradient", "glow", "scanlines", "icon_shadow", "icon",
       "title_glow_30", "title_glow_12", "title_text", "tagline",
       "bar_track", "bar_fill" >>

StepName(l) ==
    IF l.op = "title_glow"
    THEN (IF l.blur = 30 THEN "title_glow_30"
          ELSE IF l.blur = 12 THEN "title_glow_12" ELSE "title_glow_other")
    ELSE l.op

\* the listed steps applied to a canvas, in the order they were applied
StepsOf(image) ==
    LET kept == SelectSeq(image.layers,
                          LAMBDA l : l.op \notin {"bar_border", "bar_fill_glow"})
    IN  [i \in DOMAIN kept |-> StepName(kept[i])]

\* how many of the listed steps are complete when main() is at a statement
StepsBefore(p) ==
    CASE p \in {"start", "draw_gradient"} -> 0
      [] p = "draw_glow"                  -> 1
      [] p = "draw_scanlines"             -> 2
      [] p = "draw_icon"                  -> 3
      [] p = "draw_text"                  -> 5
      [] p = "draw_loading_bar"           -> 9
      [] OTHER                            -> 11

\* C9: the canvas always carries exactly the first steps of the fixed order
\* gradient, glow, scanlines, icon shadow, icon, outer title glow (blur 30),
\* tighter title glow (blur 12), sharp title, tagline, bar track, bar fill:
\* as many as the statements executed so far call for, none skipped,
\* repeated or out of order; the export starts only on the complete
\* composite, and every saved image carries all of it.
C9_FixedCompositingOrder ==
    /\ IsPrefix(StepsOf(run.img), ClaimedOrder)
    /\ Len(StepsOf(run.img)) = StepsBefore(run.pc)
    /\ (run.written # <<>> \/ Past("draw_loading_bar")) =>
           StepsOf(run.img) = ClaimedOrder
    /\ \A f \in PngNames :
           File(f).kind = "png" => StepsOf(File(f).image) = ClaimedOrder

C9_Witness ==
    /\ run.status = "done"
    /\ StepsOf(File("splash-1x.png").image) = ClaimedOrder

ExportOrder == <<"splash-3x.png", "splash-2x.png", "splash-1x.png", "Contents.json">>

\* C10: starting from an absent or empty output directory, the files written
\* so far are always a prefix of splash-3x.png, splash-2x.png, splash-1x.png,
\* Contents.json, also after a failure at any export step; the directory
\* holds exactly the files written; whenever Contents.json exists the three
\* PNG files exist in full, and a manifest never names a missing image.
C10_ManifestLast ==
    /\ IsPrefix(run.written, ExportOrder)
    /\ {f \in FileNames : File(f).kind # "absent"} = Range(run.written)
    /\ File("Contents.json").kind # "absent" =>
           \A f \in PngNames : File(f).kind = "png"
    /\ \A i \in 1..Len(File("Contents.json").entries) :
           File(File("Contents.json").entries[i].filename).kind = "png"
    /\ run.written # <<>> => run.dir.exists

C10_Witness ==
    /\ run.status = "failed"
    /\ run.failedAt = "write_manifest"
    /\ File("Contents.json").kind = "partial"
    /\ run.written = ExportOrder

====
